---- MODULE Spec2Model ----
(***************************************************************************)
(* Slotted-page storage engine.                                            *)
(*                                                                         *)
(*   src/src/lib.rs   Storage: one page per file, insert_data / write_page  *)
(*   src/src/page.rs  Page: the same page behind an Arc<Mutex<Vec<u8>>>     *)
(*                                                                         *)
(* A buffer is a sequence of bytes; the byte at offset o is buffer[o + 1]. *)
(* Two specifications share the variables:                                 *)
(*   SpecStorage  sequential Storage::insert_data calls on one path         *)
(*   Spec         threads calling Page::write / Page::read on one Page      *)
(***************************************************************************)
EXTENDS Integers, Sequences, FiniteSets, TLC

\* ------------------------------------------------------------------ bounds
MaxInserts == 3
MaxCalls == 2
NumThreads == 2
BigTextLen == 4084

\* --------------------------------------------------------------- constants
PAGE_SIZE == 8192
end_headers == 6
U16 == 65536

VARIABLES
  checks,      \* build profile: TRUE = overflow checks (debug), FALSE = wrapping (release)
  exists,      \* Storage: path.exists()
  file,        \* Storage: the bytes of the file at the path
  last,        \* Storage: the last insert_data call, its argument and outcome
  inserted,    \* Storage: arguments of the insert_data calls that returned Ok, in call order
  ninserts,    \* Storage: number of insert_data calls made
  page_size,   \* Page.page_size
  buffer,      \* Page.buffer, the Vec<u8> inside the mutex
  holder,      \* Page.buffer mutex: the thread holding it, 0 when free
  poisoned,    \* Page.buffer mutex: poisoned by a panic of a holder
  pc,          \* per thread: position in its current call
  op,          \* per thread: the call it is in or was last in
  arg,         \* per thread: data_fields of its write
  hdr,         \* per thread: page_header local of read()
  ret,         \* per thread: value returned by its last read()
  locks,       \* per thread: lock() invocations made by its current call
  calls,       \* per thread: number of calls made
  started      \* data_fields of the write() calls in call order

storageVars == <<exists, file, last, inserted, ninserts>>
pageVars == <<page_size, buffer, holder, poisoned, pc, op, arg, hdr, ret, locks, calls, started>>
vars == <<checks, exists, file, last, inserted, ninserts,
          page_size, buffer, holder, poisoned, pc, op, arg, hdr, ret, locks, calls, started>>

\* ------------------------------------------------------------ byte helpers
to_le_bytes(x) == <<x % 256, (x \div 256) % 256>>

from_le_bytes(buf, offset) == buf[offset + 1] + 256 * buf[offset + 2]

\* buf[offset .. offset + Len(src)].copy_from_slice(src), the range being inside buf
copy_from_slice(buf, offset, src) ==
  SubSeq(buf, 1, offset) \o src \o SubSeq(buf, offset + Len(src) + 1, Len(buf))

\* ---------------------------------------------------------------- DataField
Integer(v) == [tag |-> 1, int |-> v, text |-> <<>>]

Text(bytes) == [tag |-> 2, int |-> 0, text |-> bytes]

to_int(field) == field.tag

\* "data".as_bytes()
DataBytes == <<100, 97, 116, 97>>

BigText == [i \in 1..BigTextLen |-> 97]

ScenarioTuple == <<Text(DataBytes), Integer(10)>>

\* a tuple longer than a whole page
HugeTuple == <<Text(BigText), Text(BigText), Text(BigText)>>

\* a text whose byte length does not fit in a u16
LongText == [i \in 1..U16 |-> 97]

Tuples ==
  { <<>>, <<Integer(0)>>, <<Text(<<>>)>>, ScenarioTuple, <<Text(BigText)>>, HugeTuple,
    <<Text(LongText)>> }

\* arguments of the write() calls of the threads
WriteTuples == { <<>>, ScenarioTuple }

\* ------------------------------------------------------------ tuple encoding
RECURSIVE TagBytes(_)
TagBytes(fields) ==
  IF fields = <<>> THEN <<>>
  ELSE to_le_bytes(to_int(Head(fields))) \o TagBytes(Tail(fields))

FieldData(field) ==
  IF field.tag = 2
  THEN to_le_bytes(Len(field.text) % U16) \o field.text
  ELSE to_le_bytes(field.int)

RECURSIVE DataBytesOf(_)
DataBytesOf(fields) ==
  IF fields = <<>> THEN <<>>
  ELSE FieldData(Head(fields)) \o DataBytesOf(Tail(fields))

\* the Vec `row` at the end of the encoding loop
EncodeRow(fields) ==
  to_le_bytes(Len(fields) % U16) \o TagBytes(fields) \o DataBytesOf(fields)

\* the sum of the increments applied to data_len, before any wrap
RECURSIVE FieldIncrements(_)
FieldIncrements(fields) ==
  IF fields = <<>> THEN 0
  ELSE (IF Head(fields).tag = 2 THEN 4 + (Len(Head(fields).text) % U16) ELSE 4)
       + FieldIncrements(Tail(fields))

DataLenExact(fields) == 2 + FieldIncrements(fields)

\* ------------------------------------------------------------------ header
read_metadata(page) ==
  [id |-> from_le_bytes(page, 0),
   lower |-> from_le_bytes(page, 2),
   higher |-> from_le_bytes(page, 4)]

\* write_metadata with the id field filled from the wrong header field
write_metadata_IdFromLower(page, page_header) ==
  copy_from_slice(
    copy_from_slice(
      copy_from_slice(page, 0, to_le_bytes(page_header.lower)),
      2, to_le_bytes(page_header.lower)),
    4, to_le_bytes(page_header.higher))

write_metadata(page, page_header) ==
  copy_from_slice(
    copy_from_slice(
      copy_from_slice(page, 0, to_le_bytes(page_header.id)),
      2, to_le_bytes(page_header.lower)),
    4, to_le_bytes(page_header.higher))

default_page == [i \in 1..PAGE_SIZE |-> 0]

\* create_page with the slot directory started inside the header
create_page_ShortHeader ==
  write_metadata(default_page, [id |-> 1, lower |-> 4, higher |-> PAGE_SIZE % U16])

create_page ==
  write_metadata(default_page, [id |-> 1, lower |-> 6, higher |-> PAGE_SIZE % U16])

\* ------------------------------------------------------ Storage::write_page
\* write_page from the header arithmetic on: row and exact are the encoded tuple
\* and the unwrapped value of data_len, page_header the header read from page.
\* The outcome is a panic, or the mutated page.
WriteRow(page, row, exact, page_header, overflow_checks) ==
  LET data_len == exact % U16
      higher == (page_header.higher + U16 - data_len) % U16
      data_offset == higher
      data_end == (data_offset + data_len) % U16
      pointer_offset == page_header.lower
      lower == (page_header.lower + 2) % U16
      arith_overflow ==
        \/ exact >= U16
        \/ page_header.higher < data_len
        \/ data_offset + data_len >= U16
        \/ page_header.lower + 2 >= U16
      slice_panic ==
        \/ data_offset > data_end
        \/ data_end > Len(page)
        \/ Len(row) # data_end - data_offset
        \/ pointer_offset + 2 > Len(page)
  IN IF (overflow_checks /\ arith_overflow) \/ slice_panic
     THEN [panic |-> TRUE, page |-> page]
     ELSE [panic |-> FALSE,
           page |-> write_metadata(
                      copy_from_slice(copy_from_slice(page, data_offset, row),
                                      pointer_offset, to_le_bytes(data_offset)),
                      [id |-> page_header.id, lower |-> lower, higher |-> higher])]

write_page(page, data_fields, overflow_checks) ==
  WriteRow(page, EncodeRow(data_fields), DataLenExact(data_fields),
           read_metadata(page), overflow_checks)

\* ---------------------------------------------------------------- Page::new
\* a fresh buffer whose low_water already counts one slot entry
FreshBuffer_OneSlotCounted(size) ==
  write_metadata([i \in 1..size |-> 0],
                 [id |-> 0, lower |-> end_headers + 2, higher |-> size % U16])

\* Page::new(page_size, None): the zero buffer with the header written into it
FreshBuffer(size) ==
  write_metadata([i \in 1..size |-> 0],
                 [id |-> 0, lower |-> end_headers, higher |-> size % U16])

\* --------------------------------------------------------------- Page::read
\* String::from_utf8(bytes).is_ok()
IsCont(b) == b >= 128 /\ b <= 191

RECURSIVE Utf8From(_, _)
Utf8From(bytes, i) ==
  LET n == Len(bytes)
      b == bytes[i]
      c(k) == i + k <= n /\ IsCont(bytes[i + k])
  IN IF i > n THEN TRUE
     ELSE IF b < 128 THEN Utf8From(bytes, i + 1)
     ELSE IF b >= 194 /\ b <= 223 THEN c(1) /\ Utf8From(bytes, i + 2)
     ELSE IF b = 224 THEN c(1) /\ bytes[i + 1] >= 160 /\ c(2) /\ Utf8From(bytes, i + 3)
     ELSE IF b = 237 THEN c(1) /\ bytes[i + 1] <= 159 /\ c(2) /\ Utf8From(bytes, i + 3)
     ELSE IF b >= 225 /\ b <= 239 THEN c(1) /\ c(2) /\ Utf8From(bytes, i + 3)
     ELSE IF b = 240 THEN c(1) /\ bytes[i + 1] >= 144 /\ c(2) /\ c(3) /\ Utf8From(bytes, i + 4)
     ELSE IF b = 244 THEN c(1) /\ bytes[i + 1] <= 143 /\ c(2) /\ c(3) /\ Utf8From(bytes, i + 4)
     ELSE IF b >= 241 /\ b <= 243 THEN c(1) /\ c(2) /\ c(3) /\ Utf8From(bytes, i + 4)
     ELSE FALSE

from_utf8_ok(bytes) ==
  IF \A i \in 1..Len(bytes) : bytes[i] < 128 THEN TRUE ELSE Utf8From(bytes, 1)

\* the payload loop of read(): field k of the row, cursor at offset
RECURSIVE DecodeFields(_, _, _, _, _)
DecodeFields(buf, datatype_nums, k, offset, row) ==
  IF k > Len(datatype_nums) THEN [panic |-> FALSE, row |-> row]
  ELSE IF offset + 2 > Len(buf) THEN [panic |-> TRUE, row |-> <<>>]
  ELSE IF datatype_nums[k] = 1
  THEN DecodeFields(buf, datatype_nums, k + 1, offset + 2,
                    Append(row, Integer(from_le_bytes(buf, offset))))
  ELSE LET text_length == from_le_bytes(buf, offset)
           text == [i \in 1..text_length |-> buf[offset + 2 + i]]
       IN IF offset + 2 + text_length > Len(buf) THEN [panic |-> TRUE, row |-> <<>>]
          ELSE IF ~from_utf8_ok(text) THEN [panic |-> TRUE, row |-> <<>>]
          ELSE DecodeFields(buf, datatype_nums, k + 1, offset + 2 + text_length,
                            Append(row, Text(text)))

\* one iteration of `for pointer in pointers`
DecodeRow(buf, pointer) ==
  IF pointer + 2 > Len(buf) THEN [panic |-> TRUE, row |-> <<>>]
  ELSE LET num_of_fields == from_le_bytes(buf, pointer)
           tags_end == pointer + 2 + 2 * num_of_fields
       IN IF tags_end > Len(buf) THEN [panic |-> TRUE, row |-> <<>>]
          ELSE LET datatype_nums ==
                     [k \in 1..num_of_fields |-> from_le_bytes(buf, pointer + 2 * k)]
               IN IF \E k \in 1..num_of_fields : datatype_nums[k] \notin {1, 2}
                  THEN [panic |-> TRUE, row |-> <<>>]
                  ELSE DecodeFields(buf, datatype_nums, 1, tags_end, <<>>)

\* read() from the loop over the slot directory on, with the header it read before
ReadRows(buf, page_header, overflow_checks) ==
  LET underflow == page_header.lower < 2
      limit == (page_header.lower + U16 - 2) % U16
      n == IF limit < end_headers THEN 0 ELSE (limit - end_headers) \div 2 + 1
  IN IF overflow_checks /\ underflow THEN [panic |-> TRUE, rows |-> <<>>]
     ELSE IF end_headers + 2 * n > Len(buf) THEN [panic |-> TRUE, rows |-> <<>>]
     ELSE LET pointers == [k \in 1..n |-> from_le_bytes(buf, end_headers + 2 * (k - 1))]
              decoded == [k \in 1..n |-> DecodeRow(buf, pointers[k])]
          IN IF \E k \in 1..n : decoded[k].panic
             THEN [panic |-> TRUE, rows |-> <<>>]
             ELSE [panic |-> FALSE, rows |-> [k \in 1..n |-> decoded[k].row]]

\* Page::new(size, Some(bytes)).read() with no other thread: header and rows
\* come from the same bytes
ReadOf(bytes, overflow_checks) ==
  IF Len(bytes) < end_headers THEN [panic |-> TRUE, rows |-> <<>>]
  ELSE ReadRows(bytes, read_metadata(bytes), overflow_checks)

\* ------------------------------------------------------- Storage::read_page
\* the `while num_of_fields != 0` loop of read_page: each turn reads a type
\* tag at the cursor and the payload right behind it
RECURSIVE ReadPageFields(_, _, _, _)
ReadPageFields(page, num_of_fields, offset, row) ==
  IF num_of_fields = 0 THEN [panic |-> FALSE, row |-> row]
  ELSE IF offset + 4 > Len(page) THEN [panic |-> TRUE, row |-> <<>>]
  ELSE LET datatype_num == from_le_bytes(page, offset)
           text_length == from_le_bytes(page, offset + 2)
           text == SubSeq(page, offset + 5, offset + 4 + text_length)
       IN IF datatype_num = 1
          THEN ReadPageFields(page, num_of_fields - 1, offset + 4,
                              Append(row, Integer(from_le_bytes(page, offset + 2))))
          ELSE IF datatype_num = 2
          THEN IF offset + 4 + text_length > Len(page) \/ ~from_utf8_ok(text)
               THEN [panic |-> TRUE, row |-> <<>>]
               ELSE ReadPageFields(page, num_of_fields - 1, offset + 4 + text_length,
                                   Append(row, Text(text)))
          ELSE [panic |-> TRUE, row |-> <<>>]

ReadPageRow(page, pointer) ==
  IF pointer + 2 > Len(page) THEN [panic |-> TRUE, row |-> <<>>]
  ELSE ReadPageFields(page, from_le_bytes(page, pointer), pointer + 2, <<>>)

\* read_page(page): a panic, or the fields it printed, row by row
read_page(page, overflow_checks) ==
  LET page_header == read_metadata(page)
      underflow == page_header.lower < 2
      limit == (page_header.lower + U16 - 2) % U16
      n == IF limit < end_headers THEN 0 ELSE (limit - end_headers) \div 2 + 1
  IN IF overflow_checks /\ underflow THEN [panic |-> TRUE, rows |-> <<>>]
     ELSE IF end_headers + 2 * n > Len(page) THEN [panic |-> TRUE, rows |-> <<>>]
     ELSE LET pointers == [k \in 1..n |-> from_le_bytes(page, end_headers + 2 * (k - 1))]
              decoded == [k \in 1..n |-> ReadPageRow(page, pointers[k])]
          IN IF \E k \in 1..n : decoded[k].panic
             THEN [panic |-> TRUE, rows |-> <<>>]
             ELSE [panic |-> FALSE, rows |-> [k \in 1..n |-> decoded[k].row]]

\* ---------------------------------------------------- Storage::insert_data
\* insert_data after the page was loaded or created and write_page has run
Persist(data_fields, written) ==
  /\ exists' = TRUE
  /\ IF written.panic
     THEN /\ file' = (IF exists THEN file ELSE <<>>)
          /\ last' = [fields |-> data_fields, result |-> "panic"]
          /\ UNCHANGED inserted
     ELSE /\ file' = written.page \o SubSeq(file, PAGE_SIZE + 1, Len(file))
          /\ last' = [fields |-> data_fields, result |-> "ok"]
          /\ inserted' = Append(inserted, data_fields)

LoadAndWrite(data_fields, page) ==
  Persist(data_fields, write_page(page, data_fields, checks))

insert_data(data_fields) ==
  /\ ninserts < MaxInserts
  /\ ninserts' = ninserts + 1
  /\ IF exists /\ Len(file) < PAGE_SIZE
     THEN \* file.read_exact fails: Err returned by `?`
          /\ last' = [fields |-> data_fields, result |-> "io_error"]
          /\ UNCHANGED <<exists, file, inserted>>
     ELSE LoadAndWrite(data_fields,
                       IF exists THEN SubSeq(file, 1, PAGE_SIZE) ELSE create_page)
  /\ UNCHANGED <<checks, pageVars>>

InsertData == \E data_fields \in Tuples : insert_data(data_fields)

InitStorage ==
  /\ checks \in BOOLEAN
  /\ exists = FALSE
  /\ file = <<>>
  /\ last = [fields |-> <<>>, result |-> "none"]
  /\ inserted = <<>>
  /\ ninserts = 0
  /\ page_size = 0
  /\ buffer = <<>>
  /\ holder = 0
  /\ poisoned = FALSE
  /\ pc = [t \in 1..NumThreads |-> "idle"]
  /\ op = [t \in 1..NumThreads |-> "none"]
  /\ arg = [t \in 1..NumThreads |-> <<>>]
  /\ hdr = [t \in 1..NumThreads |-> [id |-> 0, lower |-> 0, higher |-> 0]]
  /\ ret = [t \in 1..NumThreads |-> <<>>]
  /\ locks = [t \in 1..NumThreads |-> 0]
  /\ calls = [t \in 1..NumThreads |-> 0]
  /\ started = <<>>

NextStorage == InsertData

SpecStorage == InitStorage /\ [][NextStorage]_vars

FileHeader == read_metadata(file)

\* ------------------------------------------------------------- Page threads
Threads == 1..NumThreads

\* Buffers a Page is constructed over: None (a fresh page), or Some(bytes) with
\* the bytes of a file left by Storage::insert_data calls
RECURSIVE WriteAll(_, _)
WriteAll(page, tuples) ==
  IF tuples = <<>> THEN page
  ELSE WriteAll(write_page(page, Head(tuples), FALSE).page, Tail(tuples))

PersistedFiles ==
  { WriteAll(create_page, <<ScenarioTuple>>),
    WriteAll(create_page, << <<Text(BigText)>>, <<Text(BigText)>>, <<>> >>) }

Page_new(size, some) == IF some = <<>> THEN FreshBuffer(size) ELSE some

\* page_size arguments of Page::new(page_size, None): the size Storage uses and
\* the first one that does not fit the 16-bit header field.  (With fewer than
\* 6 bytes write_metadata panics inside the constructor and there is no Page.)
PageSizes == { PAGE_SIZE, U16 }

\* the state right after Page::new(size, some)
InitPage(size, some) ==
  /\ checks \in BOOLEAN
  /\ exists = FALSE
  /\ file = <<>>
  /\ last = [fields |-> <<>>, result |-> "none"]
  /\ inserted = <<>>
  /\ ninserts = 0
  /\ page_size = size
  /\ buffer = Page_new(size, some)
  /\ holder = 0
  /\ poisoned = FALSE
  /\ pc = [t \in Threads |-> "idle"]
  /\ op = [t \in Threads |-> "none"]
  /\ arg = [t \in Threads |-> <<>>]
  /\ hdr = [t \in Threads |-> [id |-> 0, lower |-> 0, higher |-> 0]]
  /\ ret = [t \in Threads |-> <<>>]
  /\ locks = [t \in Threads |-> 0]
  /\ calls = [t \in Threads |-> 0]
  /\ started = <<>>

\* pages of PAGE_SIZE bytes: a fresh one, or one over the bytes of a file
Init == \E some \in PersistedFiles \cup {<<>>} : InitPage(PAGE_SIZE, some)

\* fresh pages of every size in PageSizes
InitSizes == \E size \in PageSizes : InitPage(size, <<>>)

\* write(data_fields) is called: the row is encoded (no shared state is touched)
WriteCall(t, data_fields) ==
  /\ pc[t] = "idle"
  /\ calls[t] < MaxCalls
  /\ pc' = [pc EXCEPT ![t] = "write_lock"]
  /\ op' = [op EXCEPT ![t] = "write"]
  /\ arg' = [arg EXCEPT ![t] = data_fields]
  /\ locks' = [locks EXCEPT ![t] = 0]
  /\ calls' = [calls EXCEPT ![t] = @ + 1]
  /\ started' = Append(started, data_fields)
  /\ UNCHANGED <<checks, storageVars, page_size, buffer, holder, poisoned, hdr, ret>>

\* write(): let mut buffer = self.buffer.lock().unwrap()
WriteLock(t) ==
  /\ pc[t] = "write_lock"
  /\ holder = 0
  /\ locks' = [locks EXCEPT ![t] = @ + 1]
  /\ IF poisoned
     THEN /\ pc' = [pc EXCEPT ![t] = "panicked"]
          /\ UNCHANGED holder
     ELSE /\ pc' = [pc EXCEPT ![t] = "write_read_metadata"]
          /\ holder' = t
  /\ UNCHANGED <<checks, storageVars, page_size, buffer, poisoned, op, arg, hdr, ret,
                 calls, started>>

\* write(): self.read_metadata(), whose first statement locks the mutex the
\* caller holds.  std::sync::Mutex::lock does not return then: the thread
\* blocks on itself for ever, or it panics and the unwinding drops the guard
\* of write(), which poisons and releases the mutex.
WriteReadMetadata(t) ==
  /\ pc[t] = "write_read_metadata"
  /\ holder = t
  /\ locks' = [locks EXCEPT ![t] = @ + 1]
  /\ \/ /\ pc' = [pc EXCEPT ![t] = "deadlocked"]
        /\ UNCHANGED <<holder, poisoned>>
     \/ /\ pc' = [pc EXCEPT ![t] = "panicked"]
        /\ holder' = 0
        /\ poisoned' = TRUE
  /\ UNCHANGED <<checks, storageVars, page_size, buffer, op, arg, hdr, ret, calls, started>>

\* read() is called
ReadCall(t) ==
  /\ pc[t] = "idle"
  /\ calls[t] < MaxCalls
  /\ pc' = [pc EXCEPT ![t] = "read_metadata"]
  /\ op' = [op EXCEPT ![t] = "read"]
  /\ locks' = [locks EXCEPT ![t] = 0]
  /\ calls' = [calls EXCEPT ![t] = @ + 1]
  /\ UNCHANGED <<checks, storageVars, page_size, buffer, holder, poisoned, arg, hdr, ret,
                 started>>

\* read(): let page_header = self.read_metadata(), the lock taken and released
\* inside read_metadata
ReadMetadata(t) ==
  /\ pc[t] = "read_metadata"
  /\ holder = 0
  /\ locks' = [locks EXCEPT ![t] = @ + 1]
  /\ IF poisoned
     THEN /\ pc' = [pc EXCEPT ![t] = "panicked"]
          /\ UNCHANGED hdr
     ELSE /\ pc' = [pc EXCEPT ![t] = "read_lock"]
          /\ hdr' = [hdr EXCEPT ![t] = read_metadata(buffer)]
  /\ UNCHANGED <<checks, storageVars, page_size, buffer, holder, poisoned, op, arg, ret,
                 calls, started>>

\* read() from its lock() to its return: the guard lives to the end of the call
ReadDecode(t, decoded) ==
  IF decoded.panic
  THEN /\ pc' = [pc EXCEPT ![t] = "panicked"]
       /\ poisoned' = TRUE
       /\ UNCHANGED ret
  ELSE /\ pc' = [pc EXCEPT ![t] = "idle"]
       /\ ret' = [ret EXCEPT ![t] = decoded.rows]
       /\ UNCHANGED poisoned

ReadBody(t) ==
  /\ pc[t] = "read_lock"
  /\ holder = 0
  /\ locks' = [locks EXCEPT ![t] = @ + 1]
  /\ IF poisoned
     THEN /\ pc' = [pc EXCEPT ![t] = "panicked"]
          /\ UNCHANGED <<poisoned, ret>>
     ELSE ReadDecode(t, ReadRows(buffer, hdr[t], checks))
  /\ UNCHANGED <<checks, storageVars, page_size, buffer, holder, op, arg, hdr,
                 calls, started>>

Next ==
  \/ \E t \in Threads : \E data_fields \in WriteTuples : WriteCall(t, data_fields)
  \/ \E t \in Threads : WriteLock(t)
  \/ \E t \in Threads : WriteReadMetadata(t)
  \/ \E t \in Threads : ReadCall(t)
  \/ \E t \in Threads : ReadMetadata(t)
  \/ \E t \in Threads : ReadBody(t)

Spec == Init /\ [][Next]_vars

SpecSizes == InitSizes /\ [][Next]_vars

\* =================================================================== claims
\* The outcome of a read() called now by a thread of its own, nothing else
\* running meanwhile: it blocks while the mutex is held, panics on a poisoned
\* mutex or on a decoding panic, and returns the rows otherwise.
ReadNow ==
  IF holder # 0 THEN [outcome |-> "blocked", rows |-> <<>>]
  ELSE IF poisoned THEN [outcome |-> "panic", rows |-> <<>>]
  ELSE IF ReadOf(buffer, checks).panic THEN [outcome |-> "panic", rows |-> <<>>]
  ELSE [outcome |-> "returned", rows |-> ReadOf(buffer, checks).rows]

Returned(rows) == [outcome |-> "returned", rows |-> rows]

\* the page was constructed by Page::new(page_size, None)
FreshPage == read_metadata(buffer) = [id |-> 0, lower |-> end_headers, higher |-> page_size]

InWrite(t) == pc[t] \in {"write_lock", "write_read_metadata"}

\* bytes of the payloads of the fields: 2 per Integer, 2 + byte length per Text
RECURSIVE PayloadLen(_)
PayloadLen(fields) ==
  IF fields = <<>> THEN 0
  ELSE (IF Head(fields).tag = 1 THEN 2 ELSE 2 + Len(Head(fields).text))
       + PayloadLen(Tail(fields))

\* L = 2 + 2n + (2 per Integer) + (2 + byte length per Text)
ClaimedLen(fields) == 2 + 2 * Len(fields) + PayloadLen(fields)

RECURSIVE SlotAndTupleBytes(_)
SlotAndTupleBytes(tuples) ==
  IF tuples = <<>> THEN 0
  ELSE ClaimedLen(Head(tuples)) + 2 + SlotAndTupleBytes(Tail(tuples))

AllFit(tuples, size) == SlotAndTupleBytes(tuples) <= size - end_headers

\* C1: on a fresh page, once the one write(fields) made so far is over, read()
\* returns exactly one tuple, equal to fields in the same field order.
C1_RoundTrip ==
  \A t \in Threads :
    (FreshPage /\ Len(started) = 1 /\ op[t] = "write" /\ ~InWrite(t))
      => ReadNow = Returned(<<arg[t]>>)

\* C2: on a fresh page, once the writes T1..Tn made so far (n >= 0, all
\* fitting) are over, read() returns [T1, ..., Tn] in insertion order.
C2_AppendOrder ==
  (FreshPage /\ AllFit(started, page_size) /\ \A t \in Threads : ~InWrite(t))
    => ReadNow = Returned(started)

\* C6: the buffer lock is never requested by a call that already holds it.
C6_NoRelock ==
  \A t \in Threads : ~(holder = t /\ pc[t] = "write_read_metadata")

\* C7: when every thread has called write() once and all of them have
\* finished, each call has completed or failed without harm to the page, and
\* read() returns exactly the tuples whose write completed.
WriteCompleted(t) == op[t] = "write" /\ pc[t] = "idle"

CompletedTuples == { arg[t] : t \in { u \in Threads : WriteCompleted(u) } }

C7_ConcurrentWriters ==
  /\ \A t \in Threads : op[t] = "write" => pc[t] # "deadlocked"
  /\ (\A t \in Threads : op[t] = "write" /\ calls[t] = 1 /\ pc[t] \in {"idle", "panicked"})
       => /\ ReadNow.outcome = "returned"
          /\ { ReadNow.rows[k] : k \in 1..Len(ReadNow.rows) } = CompletedTuples
          /\ Len(ReadNow.rows) = Cardinality({ t \in Threads : WriteCompleted(t) })

\* C8: a write() takes the lock exactly once: it never calls lock() a second
\* time, and it does not stop holding the lock before it has returned.
C8_OneCriticalSection ==
  \A t \in Threads :
    op[t] = "write" => /\ locks[t] <= 1
                       /\ (locks[t] = 1 /\ pc[t] # "idle" => holder = t \/ poisoned)

\* --------------------------------------------------------- Storage claims
FilePage == exists /\ Len(file) >= PAGE_SIZE

AllReturned == Len(inserted) = ninserts

\* C3: the header of a page created fresh and mutated only by writes
\* satisfies 6 <= low_water <= high_water <= size.
C3_HeaderInvariant ==
  FilePage => /\ end_headers <= FileHeader.lower
              /\ FileHeader.lower <= FileHeader.higher
              /\ FileHeader.higher <= PAGE_SIZE

\* the tuple and one more slot entry have room in the free region of the page
Fits(page, data_fields) ==
  LET page_header == read_metadata(page)
  IN ClaimedLen(data_fields) + 2 <= page_header.higher - page_header.lower

\* C4: a write of a tuple of encoded length L with L + 2 > high_water -
\* low_water fails with a capacity error returned to the caller and leaves
\* every byte of the page unchanged.
C4_CapacityError ==
  [][(ninserts' = ninserts + 1 /\ FilePage /\ ~Fits(file, last'.fields))
       => (last'.result = "capacity_error" /\ file' = file)]_vars

\* C5: after writes that all returned, the byte ranges [slot_k, slot_k + L_k)
\* of the tuples are pairwise disjoint, lie inside [high_water, size), and
\* the slot directory [6, low_water) overlaps none of them.
Slot(k) == from_le_bytes(file, end_headers + 2 * (k - 1))

TupleEnd(k) == Slot(k) + Len(EncodeRow(inserted[k]))

C5_Disjoint ==
  (FilePage /\ AllReturned)
    => /\ \A j, k \in 1..Len(inserted) :
            j # k => (TupleEnd(j) <= Slot(k) \/ TupleEnd(k) <= Slot(j))
       /\ \A k \in 1..Len(inserted) :
            /\ FileHeader.higher <= Slot(k)
            /\ TupleEnd(k) <= PAGE_SIZE
            /\ (FileHeader.lower <= Slot(k) \/ TupleEnd(k) <= end_headers)

\* C9 as stated: after the tuple [Text("data"), Integer(10)] is written to a
\* fresh 8192-byte page the header holds low_water = 8 and high_water = 8180
\* and read() returns [[Text("data"), Integer(10)]].
FirstScenarioWrite == ninserts = 1 /\ last.fields = ScenarioTuple

C10_PersistenceRoundTrip ==
  (FilePage /\ AllReturned)
    => ReadOf(file, checks) = [panic |-> FALSE, rows |-> inserted]

\* the same for calls whose tuple had room in the page
FittingRoundTrip ==
  (FilePage /\ AllReturned /\ AllFit(inserted, PAGE_SIZE))
    => ReadOf(file, checks) = [panic |-> FALSE, rows |-> inserted]

\* C11: a read() on a loaded buffer never aborts: whatever the bytes are (a
\* type tag other than 1 or 2, a slot offset or text length that leads past
\* the buffer) it returns to its caller.  No write() is involved.
C11_NoAbortOnCorruptPage ==
  \A t \in Threads : (started = <<>> /\ op[t] = "read") => pc[t] # "panicked"

C16_FreshPage ==
  IF buffer = FreshBuffer(page_size)
  THEN /\ Len(buffer) = page_size
       /\ read_metadata(buffer).lower = end_headers
       /\ read_metadata(buffer).higher = page_size
       /\ \A i \in end_headers + 1..Len(buffer) : buffer[i] = 0
       /\ ReadOf(buffer, checks) = [panic |-> FALSE, rows |-> <<>>]
  ELSE buffer \in PersistedFiles

\* ------------------------------------------------- the claimed tuple layout
PayloadOffset(fields, k) == 2 + 2 * Len(fields) + PayloadLen(SubSeq(fields, 1, k - 1))

\* the bytes of buf from offset at on are the claimed encoding of fields:
\* the count, the n tags in field order, the n payloads in field order
LayoutAt(buf, at, fields) ==
  /\ at + ClaimedLen(fields) <= Len(buf)
  /\ from_le_bytes(buf, at) = Len(fields)
  /\ \A k \in 1..Len(fields) :
       /\ from_le_bytes(buf, at + 2 * k) = (IF fields[k].tag = 1 THEN 1 ELSE 2)
       /\ LET o == at + PayloadOffset(fields, k)
          IN IF fields[k].tag = 1
             THEN from_le_bytes(buf, o) = fields[k].int
             ELSE /\ from_le_bytes(buf, o) = Len(fields[k].text)
                  /\ SubSeq(buf, o + 3, o + 2 + Len(fields[k].text)) = fields[k].text

\* the effect C12 claims for one write of fields that turns page old into new
WriteEffect(old, new, fields) ==
  LET page_header == read_metadata(old)
      L == ClaimedLen(fields)
  IN /\ read_metadata(new).higher = page_header.higher - L
     /\ read_metadata(new).lower = page_header.lower + 2
     /\ LayoutAt(new, page_header.higher - L, fields)
     /\ from_le_bytes(new, page_header.lower) = page_header.higher - L

\* the step that ends the write() of thread t
WriteEnds(t) ==
  /\ pc[t] \in {"write_lock", "write_read_metadata"}
  /\ pc'[t] \notin {"write_lock", "write_read_metadata"}

\* C12: a write() of a tuple of encoded length L on a page with header
\* (low, high) and enough room ends with high_water = high - L, low_water =
\* low + 2, the encoded tuple at [high - L, high) and the value high - L at
\* [low, low + 2).
C12_WriteEffect ==
  [][\A t \in Threads :
       (WriteEnds(t) /\ Fits(buffer, arg[t])) => WriteEffect(buffer, buffer', arg[t])]_vars

\* the page insert_data hands to write_page
LoadedPage == IF exists THEN file ELSE create_page

InsertFits ==
  /\ ninserts' = ninserts + 1
  /\ ~exists \/ Len(file) >= PAGE_SIZE
  /\ Fits(LoadedPage, last'.fields)

\* the same effect for Storage::write_page, where the write does end
StorageWriteEffect ==
  [][InsertFits => (last'.result = "ok" /\ WriteEffect(LoadedPage, file', last'.fields))]_vars

\* the slot directory C13 claims for a page of the given size that holds tuples
SlotDirectoryOK(buf, tuples, size) ==
  LET k == Len(tuples)
      page_header == read_metadata(buf)
      entry(j) == from_le_bytes(buf, end_headers + 2 * (j - 1))
  IN /\ page_header.lower = end_headers + 2 * k
     /\ \A j \in 1..k :
          /\ page_header.higher <= entry(j)
          /\ entry(j) < size
          /\ LayoutAt(buf, entry(j), tuples[j])
     /\ \A j \in 1..k - 1 : entry(j + 1) < entry(j)
     /\ k >= 1 => entry(k) = page_header.higher

\* the page was constructed by Page::new(page_size, None)
FromNone == read_metadata(buffer).id = 0

\* C13: once k writes that fit into a fresh page are over, low_water = 6 + 2k
\* and the k directory entries are the start offsets of the k tuples, in
\* [high_water, size), strictly decreasing, the last one equal to high_water.
C13_SlotDirectory ==
  (FromNone /\ AllFit(started, page_size) /\ \A t \in Threads : ~InWrite(t))
    => SlotDirectoryOK(buffer, started, page_size)

\* the same for Storage::write_page
StorageSlotDirectory ==
  (FilePage /\ AllReturned /\ AllFit(inserted, PAGE_SIZE))
    => SlotDirectoryOK(file, inserted, PAGE_SIZE)

\* C14: a write that fits leaves unchanged the page id (bytes 0-1), every slot
\* entry in [6, old low_water), every byte in [old high_water, size) and the
\* free bytes between the new slot entry and the new tuple; the buffer keeps
\* its length.
FrameKept(old, new, fields) ==
  LET page_header == read_metadata(old)
      L == ClaimedLen(fields)
  IN /\ Len(new) = Len(old)
     /\ SubSeq(new, 1, 2) = SubSeq(old, 1, 2)
     /\ SubSeq(new, end_headers + 1, page_header.lower)
          = SubSeq(old, end_headers + 1, page_header.lower)
     /\ SubSeq(new, page_header.lower + 3, page_header.higher - L)
          = SubSeq(old, page_header.lower + 3, page_header.higher - L)
     /\ SubSeq(new, page_header.higher + 1, Len(old))
          = SubSeq(old, page_header.higher + 1, Len(old))

C14_AppendOnlyFrame ==
  [][InsertFits => FrameKept(LoadedPage, file', last'.fields)]_vars

C14_Witness ==
  /\ ninserts = 3
  /\ AllReturned
  /\ AllFit(inserted, PAGE_SIZE)
  /\ inserted[1] = ScenarioTuple
  /\ inserted[3] = <<Text(BigText)>>
  /\ FileHeader.lower = end_headers + 6

\* read() changes nothing: no step of a thread changes the buffer of the Page
ReadChangesNothing == [][buffer' = buffer]_vars

\* C17: on a page from create_page holding tuples written by write_page,
\* read_page finishes without a panic, reads the fields that were written,
\* and decodes what Page::read decodes on the same bytes.
C17_ReadPageMatchesWritePage ==
  (FilePage /\ AllReturned /\ AllFit(inserted, PAGE_SIZE))
    => /\ read_page(file, checks) = [panic |-> FALSE, rows |-> inserted]
       /\ read_page(file, checks) = ReadOf(file, checks)

\* C19: for the fields of every insert, the 16-bit length subtracted from
\* high_water is the byte length of the encoded tuple, the stored field count
\* is the number of fields, each stored text length prefix is that text's
\* byte length, and none of these values has wrapped.
C19_LengthArithmetic ==
  last.result # "none" =>
    LET data_fields == last.fields
        row == EncodeRow(data_fields)
    IN /\ DataLenExact(data_fields) < U16
       /\ DataLenExact(data_fields) % U16 = Len(row)
       /\ from_le_bytes(row, 0) = Len(data_fields)
       /\ \A k \in 1..Len(data_fields) :
            data_fields[k].tag = 2 =>
              from_le_bytes(FieldData(data_fields[k]), 0) = Len(data_fields[k].text)

\* the threads that have called write(); a write() never returns, so a thread
\* makes no call after it
Writers == { t \in Threads : op[t] = "write" }

IsPrefix(a, b) == Len(a) <= Len(b) /\ SubSeq(b, 1, Len(a)) = a

ReadReturned(t) == op[t] = "read" /\ pc[t] = "idle"

====
